---- MODULE Spec2Model ----
(***************************************************************************)
(* A model of the pocket command-line client:                              *)
(*   - CleanURL, the canonical form of an item's URL      (SpecClean)      *)
(*   - api.doJSON / api.PostJSON, the remote API gateway  (SpecGateway)    *)
(*   - obtainAccessToken, the handshake with its local callback listener   *)
(*     and the listener's request handlers                (SpecAuth)       *)
(*   - commandList, the list / delete-all / cull loop     (SpecList)       *)
(* Strings are sequences of one-character strings, so that the string      *)
(* functions of the source are computed character by character.            *)
(***************************************************************************)
EXTENDS Integers, Sequences, FiniteSets, TLC

VARIABLES
    cuIn,       \* SpecClean: the string CleanURL is applied to
    cuOut,      \* SpecClean: the results of the successive applications
    cqPair,     \* SpecCanon: two URLs, one with a tracking parameter, one without
    cqOut,      \* SpecCanon: CleanURL of the one and of the other
    gwPc,       \* SpecGateway: position of the PostJSON call
    gwResp,     \* SpecGateway: what DefaultClient.Do returned
    gwErr,      \* SpecGateway: the error PostJSON returns
    gwRes,      \* SpecGateway: what happened to the caller's result value
    aPc,        \* SpecAuth: position of obtainAccessToken's main flow
    aListening, \* SpecAuth: the local listener (ts) accepts connections
    aReq,       \* SpecAuth: the inbound requests and their handlers
    aSignals,   \* SpecAuth: the sends on ch that have completed
    aReqToken,  \* SpecAuth: requestToken
    aCode,      \* SpecAuth: the request token passed to auth.ObtainAccessToken
    aUrl,       \* SpecAuth: the authorization URL printed (its request token)
    aResult,    \* SpecAuth: what obtainAccessToken returns
    aAtClose,   \* SpecAuth: the handlers that were running when ts.Close began
    lConf,      \* SpecList: conf.Cull and conf.DeleteAll
    lPc,        \* SpecList: position of commandList
    lRes,       \* SpecList: res.List, the retrieved items by item id
    lItems,     \* SpecList: the items slice, as item ids in slice order
    lIdx,       \* SpecList: the loop's position in items (i+1)
    lSeen,      \* SpecList: seenURLs
    lChk,       \* SpecList: chk, the probe's response (or nil)
    lErr,       \* SpecList: err, the probe's error (or nil)
    lCur,       \* SpecList: what the loop has done with the current item
    lHist,      \* SpecList: per item, the requests and prompts issued for it
    lModify,    \* SpecList: the Modify calls made, in order
    lAll,       \* SpecList: the delete-all confirmation: calls and answer
    lAbort,     \* SpecList: why the process ended, if it did
    mPc,        \* SpecMain: position of main, getConsumerKey, restoreAccessToken
    mKeyFile,   \* SpecMain: the consumer_key file (its bytes, or nil: unreadable)
    mAuthFile,  \* SpecMain: the auth.json file
    mKey,       \* SpecMain: consumerKey
    mToken,     \* SpecMain: accessToken
    mLoad,      \* SpecMain: the error loadJSONFromFile returned, once called
    mHandshakes,\* SpecMain: the calls of obtainAccessToken
    mSaves,     \* SpecMain: the calls of saveJSONToFile
    mClient,    \* SpecMain: client.authInfo
    mCalls,     \* SpecMain: the authenticated API calls issued
    mAbort      \* SpecMain: why the process ended, if it did

varsClean == <<cuIn, cuOut, cqPair, cqOut>>
varsGateway == <<gwPc, gwResp, gwErr, gwRes>>
varsAuth == <<aPc, aListening, aReq, aSignals, aReqToken, aCode, aUrl, aResult, aAtClose>>

varsList ==
    <<lConf, lPc, lRes, lItems, lIdx, lSeen, lChk, lErr, lCur, lHist, lModify,
      lAll, lAbort>>

varsMain ==
    <<mPc, mKeyFile, mAuthFile, mKey, mToken, mLoad, mHandshakes, mSaves, mClient,
      mCalls, mAbort>>

vars == <<varsClean, varsGateway, varsAuth, varsList, varsMain>>

\* the value of a variable that holds nothing (a nil pointer, a nil error)
Nil == [kind |-> "nil"]

\* the parts of the program a specification does not run stay as they are
IdleClean == cuIn = <<>> /\ cuOut = <<>> /\ cqPair = Nil /\ cqOut = Nil

IdleGateway == gwPc = "idle" /\ gwResp = Nil /\ gwErr = Nil /\ gwRes = "untouched"

IdleAuth ==
    /\ aPc = "idle"
    /\ aListening = FALSE
    /\ aReq = <<>>
    /\ aSignals = 0
    /\ aReqToken = ""
    /\ aCode = ""
    /\ aUrl = ""
    /\ aResult = Nil
    /\ aAtClose = {}

NoItem == [headErr |-> "", class |-> "", offered |-> "", openAns |-> ""]

NoConfirm == [calls |-> 0, answer |-> ""]

IdleList ==
    /\ lConf = [cull |-> FALSE, deleteAll |-> FALSE]
    /\ lPc = "idle"
    /\ lRes = <<>>
    /\ lItems = <<>>
    /\ lIdx = 0
    /\ lSeen = {}
    /\ lChk = Nil
    /\ lErr = Nil
    /\ lCur = NoItem
    /\ lHist = <<>>
    /\ lModify = <<>>
    /\ lAll = NoConfirm
    /\ lAbort = ""

IdleMain ==
    /\ mPc = "idle"
    /\ mKeyFile = Nil
    /\ mAuthFile = Nil
    /\ mKey = <<>>
    /\ mToken = Nil
    /\ mLoad = ""
    /\ mHandshakes = 0
    /\ mSaves = <<>>
    /\ mClient = Nil
    /\ mCalls = <<>>
    /\ mAbort = ""

----------------------------------------------------------------------------
(* Strings: the functions of package strings and regexp that CleanURL uses. *)

\* s[from..] : the suffix of s after dropping its first n characters
Drop(s, n) == SubSeq(s, n + 1, Len(s))

\* strings.HasPrefix
HasPrefix(s, p) == Len(p) <= Len(s) /\ SubSeq(s, 1, Len(p)) = p

\* strings.HasSuffix
HasSuffix(s, p) == Len(p) <= Len(s) /\ SubSeq(s, Len(s) - Len(p) + 1, Len(s)) = p

\* strings.Contains
Contains(s, p) == \E i \in 0..(Len(s) - Len(p)) : SubSeq(s, i + 1, i + Len(p)) = p

\* strings.ReplaceAll(s, old, new), old non-empty: the non-overlapping
\* instances of old, found left to right in one pass, are replaced by new.
RECURSIVE ReplaceAll(_, _, _)
ReplaceAll(s, old, new) ==
    IF Len(s) < Len(old) THEN s
    ELSE IF HasPrefix(s, old) THEN new \o ReplaceAll(Drop(s, Len(old)), old, new)
    ELSE <<Head(s)>> \o ReplaceAll(Tail(s), old, new)

\* strings.TrimSuffix(s, suffix): one trailing suffix is removed, if present
TrimSuffix(s, suffix) ==
    IF HasSuffix(s, suffix) THEN SubSeq(s, 1, Len(s) - Len(suffix)) ELSE s

\* strings.TrimRight(s, cutset): all trailing characters of cutset are removed
RECURSIVE TrimRight(_, _)
TrimRight(s, cutset) ==
    IF s # <<>> /\ s[Len(s)] \in cutset
    THEN TrimRight(SubSeq(s, 1, Len(s) - 1), cutset)
    ELSE s

\* regexp.MustCompile("&+").ReplaceAllString(s, "&"): every maximal run of
\* ampersands becomes one ampersand.
RECURSIVE CollapseAmps(_)
CollapseAmps(s) ==
    IF s = <<>> THEN s
    ELSE IF Head(s) = "&" /\ Len(s) >= 2 /\ s[2] = "&" THEN CollapseAmps(Tail(s))
    ELSE <<Head(s)>> \o CollapseAmps(Tail(s))

S_http == <<"h", "t", "t", "p", ":", "/", "/">>
S_https == <<"h", "t", "t", "p", "s", ":", "/", "/">>
S_ampA == <<"&", "a">>
S_featGU == <<"f", "e", "a", "t", "u", "r", "e", "=", "g", "-", "u">>
S_featYoutuBe ==
    <<"f", "e", "a", "t", "u", "r", "e", "=", "y", "o", "u", "t", "u", ".", "b", "e">>
S_featGdata ==
    <<"f", "e", "a", "t", "u", "r", "e", "=", "y", "o", "u", "t", "u", "b", "e",
      "_", "g", "d", "a", "t", "a">>

\* CleanURL, statement by statement.
CleanURL(url) ==
    LET u1 == ReplaceAll(url, S_http, S_https)
        u2 == TrimSuffix(u1, S_ampA)
        u3 == ReplaceAll(u2, S_featGU, <<>>)
        u4 == ReplaceAll(u3, S_featYoutuBe, <<>>)
        u5 == ReplaceAll(u4, S_featGdata, <<>>)
        u6 == CollapseAmps(u5)
        u7 == TrimRight(u6, {"&"})
        u8 == TrimRight(u7, {"/"})
    IN  u8

----------------------------------------------------------------------------
(* The remote API gateway: api.PostJSON and api.doJSON.                    *)

\* the decimal digits of fmt's %d
DigitChar(d) == <<"0", "1", "2", "3", "4", "5", "6", "7", "8", "9">>[d + 1]

RECURSIVE Itoa(_)
Itoa(n) == IF n < 10 THEN <<DigitChar(n)>> ELSE Itoa(n \div 10) \o <<DigitChar(n % 10)>>

\* fmt's %q (strconv.Quote) on printable ASCII: the value between double
\* quotes, a double quote and a backslash each escaped by a backslash.
RECURSIVE QuoteBody(_)
QuoteBody(s) ==
    IF s = <<>> THEN <<>>
    ELSE (IF Head(s) \in {"\"", "\\"} THEN <<"\\", Head(s)>> ELSE <<Head(s)>>)
         \o QuoteBody(Tail(s))

Quote(s) == <<"\"">> \o QuoteBody(s) \o <<"\"">>

\* the pieces of doJSON's format string, one before each verb
S_gotResponse == <<"g", "o", "t", " ", "r", "e", "s", "p", "o", "n", "s", "e", " ">>

HeaderLabels ==
    << <<";", " ", "X", "-", "E", "r", "r", "o", "r", "=">>,
       <<";", " ", "X", "-", "E", "r", "r", "o", "r", "-", "C", "o", "d", "e", "=">>,
       <<";", " ", "X", "-", "L", "i", "m", "i", "t", "-", "U", "s", "e", "r", "-",
         "L", "i", "m", "i", "t", "=">>,
       <<";", " ", "X", "-", "L", "i", "m", "i", "t", "-", "U", "s", "e", "r", "-",
         "R", "e", "m", "a", "i", "n", "i", "n", "g", "=">>,
       <<";", " ", "X", "-", "L", "i", "m", "i", "t", "-", "U", "s", "e", "r", "-",
         "R", "e", "s", "e", "t", "=">>,
       <<";", " ", "X", "-", "L", "i", "m", "i", "t", "-", "K", "e", "y", "-",
         "L", "i", "m", "i", "t", "=">>,
       <<";", " ", "X", "-", "L", "i", "m", "i", "t", "-", "K", "e", "y", "-",
         "R", "e", "m", "a", "i", "n", "i", "n", "g", "=">>,
       <<";", " ", "X", "-", "L", "i", "m", "i", "t", "-", "K", "e", "y", "-",
         "R", "e", "s", "e", "t", "=">> >>

\* the headers doJSON reads, in the order of its format string: X-Error,
\* X-Error-Code, X-Limit-User-{Limit,Remaining,Reset}, X-Limit-Key-{Limit,...}
HeaderIdx == 1..Len(HeaderLabels)

RECURSIVE HeaderText(_, _)
HeaderText(hdr, i) ==
    IF i > Len(HeaderLabels) THEN <<>>
    ELSE HeaderLabels[i] \o Quote(hdr[i]) \o HeaderText(hdr, i + 1)

\* fmt.Errorf("got response %d; X-Error=%q; ...", resp.StatusCode, resp.Header.Get(...), ...)
ErrorText(status, hdr) == S_gotResponse \o Itoa(status) \o HeaderText(hdr, 1)

\* a variant of StatusOK that lets every 2xx status through to the decoder
StatusOK2xx(status) == status \div 100 = 2

\* if resp.StatusCode != 200 { return fmt.Errorf(...) }
StatusOK(status) == status = 200

\* doJSON on what DefaultClient.Do returned: the error it returns and what it
\* did to the caller's result value
DoJSONResult(out) ==
    IF out.kind = "transport"
    THEN [err |-> [kind |-> "transport"], res |-> "untouched"]
    ELSE IF ~StatusOK(out.status)
    THEN [err |-> [kind |-> "status", text |-> ErrorText(out.status, out.hdr)],
          res |-> "untouched"]
    ELSE IF out.bodyValid
    THEN [err |-> Nil, res |-> "decoded"]
    ELSE [err |-> [kind |-> "decode"], res |-> "decodeFailed"]

MaxHdrLen == 2

HdrAlphabet == {"a", "\"", "\\"}

\* the values of the X-Error header: the strings of at most MaxHdrLen characters
HeaderVals == UNION { [1..n -> HdrAlphabet] : n \in 0..MaxHdrLen }

\* the values of the other seven headers: absent (Get returns ""), or a number
LimitVals == { <<>>, <<"7">> }

Statuses == {200, 201, 403, 500}

Responses ==
    { [kind |-> "response", status |-> st, hdr |-> <<xe>> \o rest, bodyValid |-> bv] :
        st \in Statuses, xe \in HeaderVals,
        rest \in [1..(Len(HeaderLabels) - 1) -> LimitVals], bv \in BOOLEAN }

DoOutcomes == { [kind |-> "transport"] } \cup Responses

InitGateway ==
    /\ gwPc = "start"
    /\ gwResp = Nil
    /\ gwErr = Nil
    /\ gwRes = "untouched"
    /\ IdleClean
    /\ IdleAuth
    /\ IdleList
    /\ IdleMain

\* PostJSON up to its call of doJSON: json.Marshal of the request struct and
\* http.NewRequest of a constant URL, neither of which fails for these types
PostJSON ==
    /\ gwPc = "start"
    /\ gwPc' = "doJSON"
    /\ UNCHANGED <<gwResp, gwErr, gwRes, varsClean, varsAuth, varsList, varsMain>>

\* doJSON: the request is sent, and the response (or the transport's error)
\* is turned into the returned error and the decoded result
DoJSON ==
    /\ gwPc = "doJSON"
    /\ \E out \in DoOutcomes :
          /\ gwResp' = out
          /\ gwErr' = DoJSONResult(out).err
          /\ gwRes' = DoJSONResult(out).res
    /\ gwPc' = "done"
    /\ UNCHANGED <<varsClean, varsAuth, varsList, varsMain>>

NextGateway == PostJSON \/ DoJSON

SpecGateway == InitGateway /\ [][NextGateway]_vars

GotNon200 == gwPc = "done" /\ gwResp.kind = "response" /\ gwResp.status # 200

\* C9 as claimed: for every response whose status is not 200 the returned
\* error is non-nil and its text contains the status code and the exact value
\* of each of the eight headers, and the body is not decoded; a 200 response
\* is decoded.
C9_ExactHeaderValues ==
    /\ GotNon200 =>
          /\ gwErr # Nil
          /\ gwErr.kind = "status"
          /\ Contains(gwErr.text, Itoa(gwResp.status))
          /\ \A i \in HeaderIdx : Contains(gwErr.text, gwResp.hdr[i])
          /\ gwRes = "untouched"
    /\ (gwPc = "done" /\ gwResp.kind = "response" /\ gwResp.status = 200)
          => gwRes # "untouched"

\* a value that %q leaves as it is between the quotes
PlainValue(s) == \A i \in 1..Len(s) : s[i] \notin {"\"", "\\"}

\* C9 as amended: for every response whose status is not 200 the returned
\* error is non-nil, its text contains the status code and, for each of the
\* eight headers, the header's name followed by "=" and the %q quoting of its
\* value (so the exact value whenever it holds no double quote or backslash);
\* the body is not decoded. Only a 200 response is decoded.
C9_QuotedHeaderValues ==
    /\ GotNon200 =>
          /\ gwErr # Nil
          /\ gwErr.kind = "status"
          /\ Contains(gwErr.text, S_gotResponse \o Itoa(gwResp.status))
          /\ \A i \in HeaderIdx :
                /\ Contains(gwErr.text, Drop(HeaderLabels[i], 2) \o Quote(gwResp.hdr[i]))
                /\ PlainValue(gwResp.hdr[i]) => Contains(gwErr.text, gwResp.hdr[i])
          /\ gwRes = "untouched"
    /\ gwPc = "done" =>
          (gwRes # "untouched" <=> (gwResp.kind = "response" /\ gwResp.status = 200))

\* a 403 whose X-Error is plain text has been turned into an error
C9_Witness ==
    /\ GotNon200
    /\ gwResp.status = 403
    /\ gwResp.hdr[1] = <<"a", "a">>
    /\ gwErr # Nil

----------------------------------------------------------------------------
(* SpecClean: CleanURL applied, and applied again, to a bounded set of     *)
(* input strings: the concatenations of at most MaxParts fragments.        *)

MaxParts == 3

\* how often CleanURL is applied to its own result
Applications == 2

Fragments ==
    { S_http, S_https, S_ampA, S_featGU,
      <<"a", ".", "c", "o", "m">>, <<"/">>, <<"&">>, <<"?", "x", "=", "1">> }

RECURSIVE Concat(_)
Concat(parts) == IF parts = <<>> THEN <<>> ELSE Head(parts) \o Concat(Tail(parts))

CleanInputs ==
    { Concat(ps) : ps \in UNION { [1..n -> Fragments] : n \in 0..MaxParts } }

InitClean ==
    /\ cuIn \in CleanInputs
    /\ cuOut = <<>>
    /\ cqPair = Nil
    /\ cqOut = Nil
    /\ IdleGateway
    /\ IdleAuth
    /\ IdleList
    /\ IdleMain

\* one more application: CleanURL of the input, then of the previous result
CleanApply ==
    /\ Len(cuOut) < Applications
    /\ cuOut' = Append(cuOut, CleanURL(IF cuOut = <<>> THEN cuIn ELSE cuOut[Len(cuOut)]))
    /\ UNCHANGED <<cuIn, cqPair, cqOut, varsGateway, varsAuth, varsList, varsMain>>

NextClean == CleanApply

SpecClean == InitClean /\ [][NextClean]_vars

\* C10: CleanURL is idempotent: CleanURL(CleanURL(u)) = CleanURL(u) for every
\* input string u.
C10_Idempotent == Len(cuOut) >= 2 => cuOut[2] = cuOut[1]

----------------------------------------------------------------------------
(* SpecCanon: CleanURL applied to two URLs that differ in the scheme and in *)
(* one tracking parameter of the query.                                     *)

\* the parameters CleanURL removes
TrackingParams == {S_featGU, S_featYoutuBe, S_featGdata}

Schemes == {S_http, S_https}

S_exampleA == <<"e", "x", "a", "m", "p", "l", "e", ".", "c", "o", "m", "/", "a">>

HostPaths == {S_exampleA, <<"a", ".", "c", "o", "m", "/", "w">>}

\* the rest of the query
Queries == {<<"x", "=", "1">>, <<"x", "=", "1", "&", "y">>, <<"v", "=", "2">>}

\* where the tracking parameter stands in the query
ParamPlaces == {"first", "last"}

\* scheme://hostpath?query
PlainURL(scheme, hp, q) == scheme \o hp \o <<"?">> \o q

\* the same URL with the tracking parameter put into the query
TrackedURL(scheme, hp, q, param, place) ==
    scheme \o hp \o <<"?">> \o
        (IF place = "first" THEN param \o <<"&">> \o q ELSE q \o <<"&">> \o param)

CanonPairs ==
    { [tracked |-> TrackedURL(s1, hp, q, par, pl), plain |-> PlainURL(s2, hp, q),
       place |-> pl] :
        s1 \in Schemes, s2 \in Schemes, hp \in HostPaths, q \in Queries,
        par \in TrackingParams, pl \in ParamPlaces }

InitCanon ==
    /\ cqPair \in CanonPairs
    /\ cqOut = Nil
    /\ cuIn = <<>>
    /\ cuOut = <<>>
    /\ IdleGateway
    /\ IdleAuth
    /\ IdleList
    /\ IdleMain

\* CleanURL(item.URL()) for the one item and for the other
CanonApply ==
    /\ cqOut = Nil
    /\ cqOut' = [kind |-> "keys", tracked |-> CleanURL(cqPair.tracked),
                 plain |-> CleanURL(cqPair.plain)]
    /\ UNCHANGED <<cuIn, cuOut, cqPair, varsGateway, varsAuth, varsList, varsMain>>

NextCanon == CanonApply

SpecCanon == InitCanon /\ [][NextCanon]_vars

\* C11: CleanURL gives the same canonical string for a URL and for the URL
\* with the scheme changed and a known tracking parameter added to its query,
\* http://example.com/a?feature=youtu.be&x=1 and https://example.com/a?x=1
\* among them, so the two items are duplicates of each other.
C11_TrackedEqualsPlain == cqOut # Nil => cqOut.tracked = cqOut.plain

----------------------------------------------------------------------------
(* SpecAuth: obtainAccessToken. The main flow runs beside the handlers of   *)
(* the local listener (httptest.NewServer), one handler per inbound request;*)
(* ch is an unbuffered channel, so a handler's send completes only together *)
(* with the main flow's receive.                                            *)

MaxRequests == 3

Requests == 1..MaxRequests

Favicon == "/favicon.ico"

\* the paths a browser (or anything else on the machine) may request
Paths == {Favicon, "/"}

\* what auth.ObtainRequestToken and auth.ObtainAccessToken may return
RequestTokens == {"rt1", "rt2"}

AccessTokens == {"at1"}

NoRequest == [st |-> "none", path |-> "", answer |-> "none"]

\* a variant of Qualifies without the favicon branch: every request signals
QualifiesAll(path) == TRUE

\* if req.URL.Path == "/favicon.ico" { http.Error(w, "Not Found", 404); return }
Qualifies(path) == path # Favicon

\* a variant of SendReady for a buffered channel: a send completes at once
SendReadyBuffered(pc) == TRUE

\* ch := make(chan struct{}): unbuffered, so ch <- struct{}{} completes only
\* while the main flow is at <-ch
SendReady(pc) == pc = "wait"

\* a variant of ExitVia where only the successful return closes the listener
ExitViaNoDefer(result) == IF result = "ok" THEN "close" ELSE "returned"

\* defer ts.Close(): every return statement runs ts.Close() before the
\* function returns
ExitVia(result) == "close"

\* the handlers that have started and not returned
Running == { r \in Requests : aReq[r].st \in {"recv", "send"} }

InitAuth ==
    /\ aPc = "reqToken"
    /\ aListening = TRUE
    /\ aReq = [r \in Requests |-> NoRequest]
    /\ aSignals = 0
    /\ aReqToken = ""
    /\ aCode = ""
    /\ aUrl = ""
    /\ aResult = Nil
    /\ aAtClose = {}
    /\ IdleClean
    /\ IdleGateway
    /\ IdleList
    /\ IdleMain

\* the listener accepts a request and starts its handler
Arrive(r, p) ==
    /\ aListening
    /\ aReq[r].st = "none"
    /\ \A q \in Requests : q < r => aReq[q].st # "none"
    /\ aReq' = [aReq EXCEPT ![r] = [st |-> "recv", path |-> p, answer |-> "none"]]
    /\ UNCHANGED <<aPc, aListening, aSignals, aReqToken, aCode, aUrl, aResult, aAtClose>>
    /\ UNCHANGED <<varsClean, varsGateway, varsList, varsMain>>

\* the handler up to its send: a favicon probe is answered 404 and the
\* handler returns; any other request is answered "Authorized." and the
\* handler goes on to ch <- struct{}{}
Handle(r) ==
    /\ aReq[r].st = "recv"
    /\ aReq' = [aReq EXCEPT ![r] =
                  IF Qualifies(aReq[r].path)
                  THEN [@ EXCEPT !.st = "send", !.answer = "Authorized."]
                  ELSE [@ EXCEPT !.st = "done", !.answer = "404 Not Found"]]
    /\ UNCHANGED <<aPc, aListening, aSignals, aReqToken, aCode, aUrl, aResult, aAtClose>>
    /\ UNCHANGED <<varsClean, varsGateway, varsList, varsMain>>

\* ch <- struct{}{} meets <-ch: the handler returns and the main flow goes on
Signal(r) ==
    /\ aReq[r].st = "send"
    /\ SendReady(aPc)
    /\ aReq' = [aReq EXCEPT ![r].st = "done"]
    /\ aSignals' = aSignals + 1
    /\ aPc' = IF aPc = "wait" THEN "exchange" ELSE aPc
    /\ UNCHANGED <<aListening, aReqToken, aCode, aUrl, aResult, aAtClose>>
    /\ UNCHANGED <<varsClean, varsGateway, varsList, varsMain>>

\* auth.ObtainRequestToken returns a token: the authorization URL is printed
\* and the main flow blocks at <-ch
RequestTokenOK(tok) ==
    /\ aPc = "reqToken"
    /\ aReqToken' = tok
    /\ aUrl' = tok
    /\ aPc' = "wait"
    /\ UNCHANGED <<aListening, aReq, aSignals, aCode, aResult, aAtClose>>
    /\ UNCHANGED <<varsClean, varsGateway, varsList, varsMain>>

\* a variant of RequestTokenFail that ignores the error and goes on to wait
RequestTokenFailIgnored ==
    /\ aPc = "reqToken"
    /\ aPc' = "wait"
    /\ UNCHANGED <<aListening, aReq, aSignals, aReqToken, aCode, aUrl, aResult, aAtClose>>
    /\ UNCHANGED <<varsClean, varsGateway, varsList, varsMain>>

\* auth.ObtainRequestToken returns an error: return nil, err
RequestTokenFail ==
    /\ aPc = "reqToken"
    /\ aResult' = [kind |-> "requestTokenError"]
    /\ aPc' = ExitVia("requestTokenError")
    /\ UNCHANGED <<aListening, aReq, aSignals, aReqToken, aCode, aUrl, aAtClose>>
    /\ UNCHANGED <<varsClean, varsGateway, varsList, varsMain>>

\* auth.ObtainAccessToken(consumerKey, requestToken) is called
ExchangeStart ==
    /\ aPc = "exchange"
    /\ aCode' = aReqToken
    /\ aPc' = "exchanging"
    /\ UNCHANGED <<aListening, aReq, aSignals, aReqToken, aUrl, aResult, aAtClose>>
    /\ UNCHANGED <<varsClean, varsGateway, varsList, varsMain>>

\* and returns: its result is obtainAccessToken's result
ExchangeReturn(out) ==
    /\ aPc = "exchanging"
    /\ aResult' = out
    /\ aPc' = ExitVia(IF out.kind = "authorization" THEN "ok" ELSE "accessTokenError")
    /\ UNCHANGED <<aListening, aReq, aSignals, aReqToken, aCode, aUrl, aAtClose>>
    /\ UNCHANGED <<varsClean, varsGateway, varsList, varsMain>>

ExchangeOutcomes ==
    { [kind |-> "authorization", token |-> t] : t \in AccessTokens }
        \cup { [kind |-> "accessTokenError"] }

\* ts.Close(), first half: the listener is closed, so no further request is
\* accepted
CloseBegin ==
    /\ aPc = "close"
    /\ aListening' = FALSE
    /\ aAtClose' = Running
    /\ aPc' = "closing"
    /\ UNCHANGED <<aReq, aSignals, aReqToken, aCode, aUrl, aResult>>
    /\ UNCHANGED <<varsClean, varsGateway, varsList, varsMain>>

\* ts.Close(), second half: it blocks until all outstanding requests have
\* completed; then obtainAccessToken returns
CloseEnd ==
    /\ aPc = "closing"
    /\ Running = {}
    /\ aPc' = "returned"
    /\ UNCHANGED <<aListening, aReq, aSignals, aReqToken, aCode, aUrl, aResult, aAtClose>>
    /\ UNCHANGED <<varsClean, varsGateway, varsList, varsMain>>

NextAuth ==
    \/ \E r \in Requests, p \in Paths : Arrive(r, p)
    \/ \E r \in Requests : Handle(r)
    \/ \E r \in Requests : Signal(r)
    \/ \E tok \in RequestTokens : RequestTokenOK(tok)
    \/ RequestTokenFail
    \/ ExchangeStart
    \/ \E out \in ExchangeOutcomes : ExchangeReturn(out)
    \/ CloseBegin
    \/ CloseEnd

SpecAuth == InitAuth /\ [][NextAuth]_vars

\* the requests the listener has received that are not favicon probes
Qualifying == { r \in Requests : aReq[r].st # "none" /\ aReq[r].path # Favicon }

\* the main flow has got past <-ch
PastWait == aPc \in {"exchange", "exchanging"} \/ aCode # ""

\* C1: the access-token exchange is never started (the main flow never gets
\* past <-ch) before the listener has received a request whose path is not
\* /favicon.ico.
C1_NoExchangeBeforeApproval == PastWait => Qualifying # {}

\* the exchange has started after a favicon probe and one qualifying request
C1_Witness ==
    /\ aCode # ""
    /\ \E r \in Requests : aReq[r].st = "done" /\ aReq[r].path = Favicon
    /\ Cardinality(Qualifying) = 1

C3_ListenerReleased == aPc = "returned" => (~aListening /\ Running = {})

\* returned after a failed request-token call, with a handler still running
\* when the close began
C3_Witness ==
    /\ aPc = "returned"
    /\ aResult = [kind |-> "requestTokenError"]
    /\ aAtClose # {}

\* C15: the steps of the handshake are ordered. After a failed request-token
\* call no authorization URL is printed, no signal is received and the
\* access-token endpoint is not called; the URL is printed, the callback waited
\* for and the exchange started only with the request token the request-token
\* call returned, and the exchange is called with exactly that token, after
\* the one signal.
C15_StepsOrdered ==
    /\ aResult = [kind |-> "requestTokenError"] =>
          /\ aReqToken = "" /\ aUrl = "" /\ aCode = "" /\ aSignals = 0
          /\ aPc \in {"close", "closing", "returned"}
    /\ aPc \in {"wait", "exchange", "exchanging"} =>
          (aReqToken \in RequestTokens /\ aUrl = aReqToken)
    /\ aSignals > 0 => aUrl # ""
    /\ aCode # "" => (aSignals = 1 /\ aCode = aReqToken /\ aReqToken \in RequestTokens)
    /\ aResult.kind \in {"authorization", "accessTokenError"} => aCode # ""

\* the request-token call failed and the function has returned, a favicon
\* probe having been answered meanwhile
C15_Witness ==
    /\ aPc = "returned"
    /\ aResult = [kind |-> "requestTokenError"]
    /\ \E r \in Requests : aReq[r].st = "done"
    /\ aUrl = ""
    /\ aCode = ""

\* the handlers that are at ch <- struct{}{}
Sending == { r \in Requests : aReq[r].st = "send" }

\* C22: obtainAccessToken cannot deadlock: once the request-token call has
\* failed, or the signal has been received and the exchange has returned, the
\* function is on its way out (ts.Close) and, until it has returned, the main
\* flow or a handler can take a step; and no handler is left at its send, for
\* every number and timing of requests.
C22_NoDeadlock ==
    /\ aPc \in {"close", "closing"} => ENABLED NextAuth
    /\ aPc = "closing" => Sending = {}

----------------------------------------------------------------------------
(* SpecList: commandList. One process; the actions are cut at its calls of  *)
(* the outside world: Retrieve, the probes (http.Head, http.Get), the       *)
(* prompts (confirm) and Modify.                                            *)

MaxItems == 2

U_httpsA == <<"h", "t", "t", "p", "s", ":", "/", "/", "a", ".", "c", "o", "m", "/", "x">>
U_httpA == <<"h", "t", "t", "p", ":", "/", "/", "a", ".", "c", "o", "m", "/", "x">>
U_httpsB == <<"h", "t", "t", "p", "s", ":", "/", "/", "b", ".", "c", "o", "m", "/", "y", "/">>

\* the values of item.URL()
URLs == {U_httpsA, U_httpA, U_httpsB}

\* the values of item.SortId
SortIds == {1, 2}

\* res.List: a map from item id to item; the items of n retrieved entries
ItemMaps ==
    UNION { [1..n -> [url : URLs, sort : SortIds]] : n \in 0..MaxItems }

\* the orders in which a set of ids can stand in a slice
Perms(S) ==
    { p \in [1..Cardinality(S) -> S] : \A i, j \in 1..Cardinality(S) : p[i] = p[j] => i = j }

\* --cull and --delete exclude each other in the usage pattern
ListConfs ==
    { [cull |-> FALSE, deleteAll |-> FALSE],
      [cull |-> TRUE, deleteAll |-> FALSE],
      [cull |-> FALSE, deleteAll |-> TRUE] }

\* a variant of Less that sorts by descending sort order
LessDescending(a, b) == a.sort > b.sort

\* bySortID.Less
Less(a, b) == a.sort < b.sort

\* a variant of SortResults that leaves the items in map iteration order
SortResultsUnsorted(ids, list) == Perms(ids)

\* sort.Sort(bySortID(items)): not stable, and items was filled in map
\* iteration order, so the result is any arrangement without an inversion
SortResults(ids, list) ==
    { p \in Perms(ids) :
        \A i, j \in 1..Cardinality(ids) : i < j => ~Less(list[p[j]], list[p[i]]) }

\* a variant of SeenKey that looks the raw URL up, as the older main.go does
SeenKeyRaw(url) == url

\* url := CleanURL(item.URL()); the key of seenURLs
SeenKey(url) == CleanURL(url)

\* a variant of DeleteActions that misses the last item
DeleteActionsButLast(items) == SubSeq(items, 1, Len(items) - 1)

\* for _, item := range items { deleteItems = append(deleteItems, NewDeleteAction(item.ItemID)) }
DeleteActions(items) == items

\* what http.Head and http.Get return. A response: its status, whether the
\* final URL after redirects differs from the requested one, whether its body
\* holds a page-removed phrase, and whether its body is already closed.
ProbeStatuses == {200, 308, 404}

HeadResponses ==
    { [kind |-> "response", status |-> st, final |-> f, gone |-> FALSE, closed |-> FALSE] :
        st \in ProbeStatuses, f \in {"same", "other"} }

GetResponses ==
    { [kind |-> "response", status |-> st, final |-> f, gone |-> g, closed |-> FALSE] :
        st \in ProbeStatuses, f \in {"same", "other"}, g \in BOOLEAN }

\* the response that comes with the error of a failed redirect: its body is closed
RedirectResponse ==
    [kind |-> "response", status |-> 302, final |-> "other", gone |-> FALSE, closed |-> TRUE]

\* a failed probe: the error (its text ends in ": EOF", or not) and the
\* response beside it, nil except after a failed redirect
ProbeErrors ==
    { [err |-> [kind |-> "eof"], resp |-> Nil],
      [err |-> [kind |-> "other"], resp |-> Nil],
      [err |-> [kind |-> "other"], resp |-> RedirectResponse] }

HeadOutcomes == { [err |-> Nil, resp |-> r] : r \in HeadResponses } \cup ProbeErrors

GetOutcomes == { [err |-> Nil, resp |-> r] : r \in GetResponses } \cup ProbeErrors

\* err != nil && !strings.HasSuffix(err.Error(), ": EOF")
NonEOFError(err) == err # Nil /\ err.kind # "eof"

\* io.ReadAll(chk.Body): a closed body gives an error and no data
ReadAll(chk) == [gone |-> chk.gone /\ ~chk.closed, err |-> chk.closed]

\* http.StatusPermanentRedirect
StatusPermanentRedirect == 308

\* http.StatusNotFound
StatusNotFound == 404

\* a variant of IsAlive with the boundary status left out
IsAliveBelow(chk, err) == err = Nil /\ chk.status < StatusPermanentRedirect

\* err == nil && chk.StatusCode <= http.StatusPermanentRedirect
IsAlive(chk, err) == err = Nil /\ chk.status <= StatusPermanentRedirect

\* lines 250-276, from the probe's (chk, err) to the next prompt: the body
\* check, the classification and what is printed
AfterProbe(chk, err) ==
    IF NonEOFError(err) /\ chk = Nil
    THEN [pc |-> "panic", chk |-> chk, class |-> "", offered |-> ""]
    ELSE LET chk2 == IF NonEOFError(err) /\ ReadAll(chk).err /\ ReadAll(chk).gone
                     THEN [chk EXCEPT !.status = StatusNotFound]
                     ELSE chk
         IN  IF IsAlive(chk2, err)
             THEN [pc |-> "openConfirm", chk |-> chk2, class |-> "alive",
                   offered |-> chk2.final]
             ELSE IF NonEOFError(err) \/ err = Nil
             THEN [pc |-> "deleteConfirm", chk |-> chk2, class |-> "status", offered |-> ""]
             ELSE [pc |-> "deleteConfirm", chk |-> chk2, class |-> "silent", offered |-> ""]

\* the item the loop is at
CurID == lItems[lIdx]

\* per item: whether the seen check found it, the probes and prompts issued
\* for it, and the answer to its delete prompt
NoHistory ==
    [found |-> "", heads |-> 0, gets |-> 0, opens |-> 0, dels |-> 0, answer |-> ""]

\* one more prompt of the kind the next position asks
Prompted(hist, id, pc) ==
    [hist EXCEPT ![id] =
        IF pc = "openConfirm" THEN [@ EXCEPT !.opens = @ + 1]
        ELSE IF pc = "deleteConfirm" THEN [@ EXCEPT !.dels = @ + 1]
        ELSE @]

\* client.Modify(actions...): the call, and whether it returned an error
ModifyCall(ids, ok) == [ids |-> ids, ok |-> ok]

InitList ==
    /\ lConf \in ListConfs
    /\ lPc = "retrieve"
    /\ lRes = <<>>
    /\ lItems = <<>>
    /\ lIdx = 0
    /\ lSeen = {}
    /\ lChk = Nil
    /\ lErr = Nil
    /\ lCur = NoItem
    /\ lHist = <<>>
    /\ lModify = <<>>
    /\ lAll = NoConfirm
    /\ lAbort = ""
    /\ IdleClean
    /\ IdleGateway
    /\ IdleAuth
    /\ IdleMain

\* client.Retrieve fails: panic(err)
RetrieveFail ==
    /\ lPc = "retrieve"
    /\ lPc' = "panic"
    /\ lAbort' = "retrieve"
    /\ UNCHANGED <<lConf, lRes, lItems, lIdx, lSeen, lChk, lErr, lCur, lHist,
                   lModify, lAll>>
    /\ UNCHANGED <<varsClean, varsGateway, varsAuth, varsMain>>

\* client.Retrieve returns res; items is filled from the map res.List. With
\* --delete the batch confirmation is asked; otherwise the items are sorted
\* and the loop starts.
Retrieve(list, order) ==
    /\ lPc = "retrieve"
    /\ order \in Perms(DOMAIN list)
    /\ lRes' = list
    /\ lHist' = [id \in DOMAIN list |-> NoHistory]
    /\ IF lConf.deleteAll
       THEN /\ lItems' = order
            /\ lPc' = "confirmAll"
            /\ lAll' = [lAll EXCEPT !.calls = @ + 1]
            /\ lIdx' = 0
       ELSE /\ lItems' \in SortResults(DOMAIN list, list)
            /\ lPc' = "loop"
            /\ lIdx' = 1
            /\ lAll' = lAll
    /\ UNCHANGED <<lConf, lSeen, lChk, lErr, lCur, lModify, lAbort>>
    /\ UNCHANGED <<varsClean, varsGateway, varsAuth, varsMain>>

\* confirm("Really delete N items?") answered yes: one Modify call with a
\* delete action per item, and return
ConfirmAllYes(ok) ==
    /\ lPc = "confirmAll"
    /\ lAll' = [lAll EXCEPT !.answer = "yes"]
    /\ lModify' = Append(lModify, ModifyCall(DeleteActions(lItems), ok))
    /\ lPc' = "done"
    /\ UNCHANGED <<lConf, lRes, lItems, lIdx, lSeen, lChk, lErr, lCur, lHist, lAbort>>
    /\ UNCHANGED <<varsClean, varsGateway, varsAuth, varsMain>>

\* answered no: return
ConfirmAllNo ==
    /\ lPc = "confirmAll"
    /\ lAll' = [lAll EXCEPT !.answer = "no"]
    /\ lPc' = "done"
    /\ UNCHANGED <<lConf, lRes, lItems, lIdx, lSeen, lChk, lErr, lCur, lHist, lModify,
                   lAbort>>
    /\ UNCHANGED <<varsClean, varsGateway, varsAuth, varsMain>>

ConfirmPcs == {"confirmAll", "openConfirm", "deleteConfirm"}

\* confirm repeats its question until the answer is one of y, yes, n, no, q,
\* quit; only those answers have an effect.

\* confirm: "q" or "quit", or standard input fails: os.Exit(1)
ConfirmQuit ==
    /\ lPc \in ConfirmPcs
    /\ lPc' = "exit"
    /\ lAbort' = "quit"
    /\ UNCHANGED <<lConf, lRes, lItems, lIdx, lSeen, lChk, lErr, lCur, lHist,
                   lModify, lAll>>
    /\ UNCHANGED <<varsClean, varsGateway, varsAuth, varsMain>>

\* the loop body up to the seen check, template failing: panic(err)
LoopTemplateError ==
    /\ lPc = "loop"
    /\ lIdx <= Len(lItems)
    /\ lPc' = "panic"
    /\ lAbort' = "template"
    /\ UNCHANGED <<lConf, lRes, lItems, lIdx, lSeen, lChk, lErr, lCur, lHist, lModify,
                   lAll>>
    /\ UNCHANGED <<varsClean, varsGateway, varsAuth, varsMain>>

\* a variant of LoopDuplicate that panics when Modify returns an error
LoopDuplicateStops(ok) ==
    /\ lPc = "loop"
    /\ lIdx <= Len(lItems)
    /\ SeenKey(lRes[CurID].url) \in lSeen
    /\ lModify' = Append(lModify, ModifyCall(<<CurID>>, ok))
    /\ lHist' = [lHist EXCEPT ![CurID].found = "seen"]
    /\ lIdx' = IF ok THEN lIdx + 1 ELSE lIdx
    /\ lPc' = IF ok THEN lPc ELSE "panic"
    /\ lAbort' = IF ok THEN lAbort ELSE "modify"
    /\ UNCHANGED <<lConf, lRes, lItems, lSeen, lChk, lErr, lCur, lAll>>
    /\ UNCHANGED <<varsClean, varsGateway, varsAuth, varsMain>>

\* the loop body for an item whose cleaned URL is in seenURLs: one Modify
\* call with its delete action, and continue
LoopDuplicate(ok) ==
    /\ lPc = "loop"
    /\ lIdx <= Len(lItems)
    /\ SeenKey(lRes[CurID].url) \in lSeen
    /\ lModify' = Append(lModify, ModifyCall(<<CurID>>, ok))
    /\ lHist' = [lHist EXCEPT ![CurID].found = "seen"]
    /\ lIdx' = lIdx + 1
    /\ UNCHANGED <<lConf, lPc, lRes, lItems, lSeen, lChk, lErr, lCur, lAll, lAbort>>
    /\ UNCHANGED <<varsClean, varsGateway, varsAuth, varsMain>>

\* the loop body for an item not seen before: its cleaned URL is added to
\* seenURLs; with --cull the probe follows, without it the next item
LoopFresh ==
    /\ lPc = "loop"
    /\ lIdx <= Len(lItems)
    /\ SeenKey(lRes[CurID].url) \notin lSeen
    /\ lSeen' = lSeen \cup {SeenKey(lRes[CurID].url)}
    /\ lHist' = [lHist EXCEPT ![CurID].found = "new"]
    /\ IF lConf.cull
       THEN lPc' = "head" /\ lIdx' = lIdx
       ELSE lPc' = "loop" /\ lIdx' = lIdx + 1
    /\ UNCHANGED <<lConf, lRes, lItems, lChk, lErr, lCur, lModify, lAll, lAbort>>
    /\ UNCHANGED <<varsClean, varsGateway, varsAuth, varsMain>>

\* the range over items is exhausted: commandList returns
LoopEnd ==
    /\ lPc = "loop"
    /\ lIdx > Len(lItems)
    /\ lPc' = "done"
    /\ UNCHANGED <<lConf, lRes, lItems, lIdx, lSeen, lChk, lErr, lCur, lHist,
                   lModify, lAll, lAbort>>
    /\ UNCHANGED <<varsClean, varsGateway, varsAuth, varsMain>>

\* (chk, err) are in: lines 250-276 run up to the next prompt, or panic
Probed(chk, err, hist) ==
    LET a == AfterProbe(chk, err)
    IN  /\ lChk' = a.chk
        /\ lErr' = err
        /\ lPc' = a.pc
        /\ lAbort' = IF a.pc = "panic" THEN "nilDereference" ELSE lAbort
        /\ lCur' = [lCur EXCEPT !.class = a.class, !.offered = a.offered]
        /\ lHist' = Prompted(hist, CurID, a.pc)

\* chk, err := http.Head(item.URL()), succeeding
HeadOK(out) ==
    /\ lPc = "head"
    /\ out.err = Nil
    /\ Probed(out.resp, out.err, [lHist EXCEPT ![CurID].heads = @ + 1])
    /\ UNCHANGED <<lConf, lRes, lItems, lIdx, lSeen, lModify, lAll>>
    /\ UNCHANGED <<varsClean, varsGateway, varsAuth, varsMain>>

\* http.Head failing: the error is printed and http.Get is called instead
HeadError(out) ==
    /\ lPc = "head"
    /\ out.err # Nil
    /\ lHist' = [lHist EXCEPT ![CurID].heads = @ + 1]
    /\ lChk' = out.resp
    /\ lErr' = out.err
    /\ lCur' = [lCur EXCEPT !.headErr = out.err.kind]
    /\ lPc' = "get"
    /\ UNCHANGED <<lConf, lRes, lItems, lIdx, lSeen, lModify, lAll, lAbort>>
    /\ UNCHANGED <<varsClean, varsGateway, varsAuth, varsMain>>

\* chk, err = http.Get(item.URL()); its error, if any, is printed
Get(out) ==
    /\ lPc = "get"
    /\ Probed(out.resp, out.err, [lHist EXCEPT ![CurID].gets = @ + 1])
    /\ UNCHANGED <<lConf, lRes, lItems, lIdx, lSeen, lModify, lAll>>
    /\ UNCHANGED <<varsClean, varsGateway, varsAuth, varsMain>>

\* confirm(openPrompt) answered yes: firefox is run on the final URL; when
\* that fails, log.Fatalf; otherwise confirm("Delete?") is asked
OpenYes(firefoxOK) ==
    /\ lPc = "openConfirm"
    /\ lCur' = [lCur EXCEPT !.openAns = "yes"]
    /\ IF firefoxOK
       THEN /\ lPc' = "deleteConfirm"
            /\ lHist' = Prompted(lHist, CurID, "deleteConfirm")
            /\ lAbort' = lAbort
       ELSE /\ lPc' = "exit"
            /\ lHist' = lHist
            /\ lAbort' = "firefox"
    /\ UNCHANGED <<lConf, lRes, lItems, lIdx, lSeen, lChk, lErr, lModify, lAll>>
    /\ UNCHANGED <<varsClean, varsGateway, varsAuth, varsMain>>

\* answered no: confirm("Delete?") is asked
OpenNo ==
    /\ lPc = "openConfirm"
    /\ lCur' = [lCur EXCEPT !.openAns = "no"]
    /\ lPc' = "deleteConfirm"
    /\ lHist' = Prompted(lHist, CurID, "deleteConfirm")
    /\ UNCHANGED <<lConf, lRes, lItems, lIdx, lSeen, lChk, lErr, lModify, lAll, lAbort>>
    /\ UNCHANGED <<varsClean, varsGateway, varsAuth, varsMain>>

\* the end of the loop body: chk and err go out of scope, the next item is on
ItemDone ==
    /\ lPc' = "loop"
    /\ lIdx' = lIdx + 1
    /\ lChk' = Nil
    /\ lErr' = Nil
    /\ lCur' = NoItem

\* confirm("Delete?") answered yes: one Modify call with the item's delete
\* action (an error is printed), and the next item
DeleteYes(ok) ==
    /\ lPc = "deleteConfirm"
    /\ lHist' = [lHist EXCEPT ![CurID].answer = "yes"]
    /\ lModify' = Append(lModify, ModifyCall(<<CurID>>, ok))
    /\ ItemDone
    /\ UNCHANGED <<lConf, lRes, lItems, lSeen, lAll, lAbort>>
    /\ UNCHANGED <<varsClean, varsGateway, varsAuth, varsMain>>

\* a variant of DeleteNo that deletes the item all the same
DeleteNoDeletes ==
    /\ lPc = "deleteConfirm"
    /\ lHist' = [lHist EXCEPT ![CurID].answer = "no"]
    /\ lModify' = Append(lModify, ModifyCall(<<CurID>>, TRUE))
    /\ ItemDone
    /\ UNCHANGED <<lConf, lRes, lItems, lSeen, lAll, lAbort>>
    /\ UNCHANGED <<varsClean, varsGateway, varsAuth, varsMain>>

\* answered no: the next item
DeleteNo ==
    /\ lPc = "deleteConfirm"
    /\ lHist' = [lHist EXCEPT ![CurID].answer = "no"]
    /\ ItemDone
    /\ UNCHANGED <<lConf, lRes, lItems, lSeen, lModify, lAll, lAbort>>
    /\ UNCHANGED <<varsClean, varsGateway, varsAuth, varsMain>>

NextList ==
    \/ RetrieveFail
    \/ \E list \in ItemMaps : \E order \in Perms(DOMAIN list) : Retrieve(list, order)
    \/ \E ok \in BOOLEAN : ConfirmAllYes(ok)
    \/ ConfirmAllNo
    \/ ConfirmQuit
    \/ LoopTemplateError
    \/ \E ok \in BOOLEAN : LoopDuplicate(ok)
    \/ LoopFresh
    \/ LoopEnd
    \/ \E out \in HeadOutcomes : HeadOK(out)
    \/ \E out \in HeadOutcomes : HeadError(out)
    \/ \E out \in GetOutcomes : Get(out)
    \/ \E ok \in BOOLEAN : OpenYes(ok)
    \/ OpenNo
    \/ \E ok \in BOOLEAN : DeleteYes(ok)
    \/ DeleteNo

SpecList == InitList /\ [][NextList]_vars

\* the canonical URL of a retrieved item, computed apart from the loop
Canon(id) == CleanURL(lRes[id].url)

PosOf(id) == CHOOSE i \in 1..Len(lItems) : lItems[i] = id

\* the loop body has ended for the item
Finished(id) == lIdx > 0 /\ PosOf(id) < lIdx

\* an item before it in the processing order has the same canonical URL
EarlierSame(id) == \E j \in 1..(PosOf(id) - 1) : Canon(lItems[j]) = Canon(id)

\* the Modify calls that carry an action for the item
CallsNaming(id) ==
    { k \in 1..Len(lModify) : \E j \in 1..Len(lModify[k].ids) : lModify[k].ids[j] = id }

\* exactly one Modify call names the item, and it carries that one action
DeletedAlone(id) ==
    /\ Cardinality(CallsNaming(id)) = 1
    /\ \A k \in CallsNaming(id) : lModify[k].ids = <<id>>

\* C4: in the non-delete-all path an item whose canonical URL equals that of
\* an item processed earlier in the run is never probed (no HEAD, no GET) and
\* never prompted for, with or without --cull, and once the loop is past it, it
\* has been deleted by one Modify call of its own.
C4_DuplicateAutoDeleted ==
    (~lConf.deleteAll /\ lPc \notin {"retrieve"}) =>
        \A id \in DOMAIN lRes :
            EarlierSame(id) =>
                /\ lHist[id].heads = 0 /\ lHist[id].gets = 0
                /\ lHist[id].opens = 0 /\ lHist[id].dels = 0
                /\ Finished(id) => DeletedAlone(id)

\* with --cull: an http item was probed, then the https item of the same
\* canonical URL was deleted unprobed
C4_Witness ==
    /\ lConf.cull
    /\ lPc = "done"
    /\ \E id, first \in DOMAIN lRes :
          /\ EarlierSame(id) /\ Finished(id) /\ DeletedAlone(id)
          /\ lRes[id].url # lRes[first].url
          /\ Canon(first) = Canon(id)
          /\ lHist[first].heads = 1
          /\ lHist[id].heads = 0

\* the delete-all path has returned
DeleteAllDone == lConf.deleteAll /\ lPc = "done"

\* one Modify call with one delete action per retrieved item
OneBulkCall ==
    /\ Len(lModify) = 1
    /\ Len(lModify[1].ids) = Cardinality(DOMAIN lRes)
    /\ \A id \in DOMAIN lRes : Cardinality(CallsNaming(id)) = 1
    /\ \A id \in DOMAIN lRes :
          Cardinality({ j \in 1..Len(lModify[1].ids) : lModify[1].ids[j] = id }) = 1

\* no probe and no per-item prompt was issued
NothingPerItem ==
    \A id \in DOMAIN lRes :
        /\ lHist[id].heads = 0 /\ lHist[id].gets = 0
        /\ lHist[id].opens = 0 /\ lHist[id].dels = 0

\* C5 as claimed: with delete-all and N retrieved items, a run issues exactly
\* one confirmation prompt and makes exactly one Modify call, which carries
\* exactly N delete actions, one per retrieved item.
C5_AlwaysOneBulkCall ==
    DeleteAllDone => (lAll.calls = 1 /\ NothingPerItem /\ OneBulkCall)

\* C5 as amended: with delete-all and N retrieved items, confirm is called
\* exactly once; when the operator answers yes, exactly one Modify call is
\* made, with exactly N delete actions, one per retrieved item; when the
\* operator answers no, no Modify call is made.
C5_OneBulkCallWhenConfirmed ==
    DeleteAllDone =>
        /\ lAll.calls = 1
        /\ NothingPerItem
        /\ lAll.answer \in {"yes", "no"}
        /\ lAll.answer = "yes" => OneBulkCall
        /\ lAll.answer = "no" => lModify = <<>>

\* delete-all confirmed for two items or more: one call, all of them in it
C5_Witness ==
    /\ DeleteAllDone
    /\ lAll.answer = "yes"
    /\ Cardinality(DOMAIN lRes) >= 2
    /\ OneBulkCall

\* the plain list path (no --cull, no --delete) has returned
PlainDone == ~lConf.cull /\ ~lConf.deleteAll /\ lPc = "done"

\* the retrieved items that share the item's canonical URL
Group(id) == { j \in DOMAIN lRes : Canon(j) = Canon(id) }

\* those of a group that no Modify call names
Kept(G) == { j \in G : CallsNaming(j) = {} }

\* the end-to-end scenario: {id 1, https://a.com/x, sort 2}, {id 2, http://a.com/x, sort 1}
Scenario == <<[url |-> U_httpsA, sort |-> 2], [url |-> U_httpA, sort |-> 1]>>

\* C6: in the plain list path, of the retrieved items that share a canonical
\* URL exactly one is kept, its sort order is the lowest of the group, and
\* every other one is deleted by exactly one single-action Modify call; for
\* the scenario items the run makes exactly one Modify call, a delete of item 1.
C6_LowestSortKept ==
    PlainDone =>
        /\ \A id \in DOMAIN lRes :
              /\ Cardinality(Kept(Group(id))) = 1
              /\ \A k \in Kept(Group(id)) : \A j \in Group(id) :
                    lRes[k].sort <= lRes[j].sort
              /\ \A j \in Group(id) \ Kept(Group(id)) : DeletedAlone(j)
        /\ lRes = Scenario => (Len(lModify) = 1 /\ lModify[1].ids = <<1>>)

\* the scenario has run: item 2 was kept and item 1 deleted
C6_Witness ==
    /\ PlainDone
    /\ lRes = Scenario
    /\ lItems = <<2, 1>>
    /\ CallsNaming(1) # {}
    /\ CallsNaming(2) = {}

\* the loop is at an item
AtItem == lIdx \in 1..Len(lItems) /\ lPc \notin {"retrieve", "confirmAll", "loop", "done"}

\* HEAD failed and the GET after it failed too
ProbeFailed == AtItem /\ lHist[CurID].gets = 1 /\ lErr # Nil

\* C7: when the probe of an item fails (HEAD errors and the fallback GET
\* errors too), the loop goes on: the process does not abort, and the item's
\* delete prompt is next.
C7_ProbeErrorContinues == ProbeFailed => (lPc # "panic" /\ lHist[CurID].dels = 1)

\* the probe has ended with a response and no error
ProbeAnswered == AtItem /\ lErr = Nil /\ lChk # Nil /\ lPc \in {"openConfirm", "deleteConfirm", "exit"}

\* C8: a probe response whose body holds a page-removed phrase is classified
\* as not-found whatever its status, 200 included: its status is set to 404,
\* the item is not treated as alive and no open-in-browser prompt is offered.
C8_RemovedPageNotFound ==
    (ProbeAnswered /\ lChk.gone) =>
        /\ lChk.status = StatusNotFound
        /\ lCur.class # "alive"
        /\ lHist[CurID].opens = 0

\* the sorted loop is on, or over
InLoop == ~lConf.deleteAll /\ lPc # "retrieve" /\ lAbort # "retrieve"

\* items stands in ascending sort order, and the loop takes it front to back:
\* the items reached so far are those up to the loop's position
Ascending ==
    /\ \A i, j \in 1..Len(lItems) : i < j => lRes[lItems[i]].sort <= lRes[lItems[j]].sort
    /\ \A id \in DOMAIN lRes : lHist[id].found # "" => PosOf(id) <= lIdx

\* no two retrieved items have the same sort order
DistinctSorts == \A a, b \in DOMAIN lRes : lRes[a].sort = lRes[b].sort => a = b

\* C16 as claimed: in the non-delete-all path the items are processed in
\* ascending sort order, and the order is a function of the retrieved items:
\* it is the only order the sort can produce for them.
C16_AscendingDeterministic ==
    InLoop => (Ascending /\ SortResults(DOMAIN lRes, lRes) = {lItems})

\* C16 as amended: in the non-delete-all path the items are processed in
\* ascending sort order; the order is a function of the retrieved items when
\* their sort orders are pairwise distinct (items of equal sort order may be
\* processed in either order).
C16_AscendingDeterministicIfDistinct ==
    InLoop =>
        /\ Ascending
        /\ DistinctSorts => SortResults(DOMAIN lRes, lRes) = {lItems}

\* two items whose ids run against their sort orders, both probed and
\* prompted for in sort order
C16_Witness ==
    /\ lConf.cull
    /\ lPc = "done"
    /\ Len(lItems) = 2
    /\ lRes[1].sort = 2 /\ lRes[2].sort = 1
    /\ lItems = <<2, 1>>
    /\ lHist[1].dels = 1 /\ lHist[2].dels = 1

\* the item a single-action Modify call names
Named(k) == lModify[k].ids[1]

\* C17: in the non-delete-all path every Modify call carries exactly one
\* delete action, for the item the loop was at when the call was made (a
\* duplicate, or an item whose delete prompt was answered yes), the calls
\* follow the processing order, and whether or not a call returned an error
\* the loop has gone on past its item: no run ends at a Modify error, and a
\* run that reaches the end of the loop has processed every item.
C17_SingleActionCalls ==
    InLoop =>
        /\ \A k \in 1..Len(lModify) :
              /\ Len(lModify[k].ids) = 1
              /\ Finished(Named(k))
              /\ lHist[Named(k)].found = "seen" \/ lHist[Named(k)].answer = "yes"
        /\ \A k1, k2 \in 1..Len(lModify) : k1 < k2 => PosOf(Named(k1)) < PosOf(Named(k2))
        /\ lAbort # "modify"
        /\ lPc = "done" => \A id \in DOMAIN lRes : lHist[id].found # ""

\* the delete of the first item, confirmed at its prompt, failed, and the
\* next item, a duplicate of it, was deleted by a call of its own
C17_Witness ==
    /\ lPc = "done"
    /\ Len(lModify) = 2
    /\ ~lModify[1].ok
    /\ lHist[Named(1)].answer = "yes"
    /\ lModify[2].ok
    /\ lHist[Named(2)].found = "seen"

\* C18: the probe of an item issues HEAD first and once, and GET at most once
\* and only after HEAD; GET is issued only when HEAD failed with an error that
\* is not a clean end of stream (an EOF from HEAD does not trigger the GET);
\* when HEAD succeeds no GET is issued.
C18_HeadFirstGetOnError ==
    InLoop =>
        /\ \A id \in DOMAIN lRes :
              lHist[id].heads <= 1 /\ lHist[id].gets <= lHist[id].heads
        /\ (AtItem /\ lHist[CurID].gets = 1) => lCur.headErr = "other"

\* the probe of the current item is over and has led to a prompt
Classified == AtItem /\ lPc \in {"openConfirm", "deleteConfirm", "exit"}

\* C19: a probed item is classified as alive exactly when the probe returned
\* a response without an error and its status code is at most 308; the open
\* prompt is offered for alive items only, and what it offers, and firefox
\* opens, is the final URL after redirects.
C19_AliveUpToPermanentRedirect ==
    Classified =>
        /\ lCur.class = "alive" <=> (lErr = Nil /\ lChk.status <= 308)
        /\ lHist[CurID].opens = (IF lCur.class = "alive" THEN 1 ELSE 0)
        /\ lCur.openAns # "" => lCur.class = "alive"
        /\ lCur.class = "alive" => lCur.offered = lChk.final
        /\ lCur.class # "alive" => lCur.offered = ""

\* a 308 response that was redirected: the final URL was offered and opened
C19_Witness ==
    /\ lPc = "deleteConfirm"
    /\ lErr = Nil
    /\ lChk.status = 308
    /\ lChk.final = "other"
    /\ lCur.class = "alive"
    /\ lCur.offered = "other"
    /\ lCur.openAns = "yes"

\* C20: with probing on, every item that is not a duplicate gets exactly one
\* delete prompt once its probe is over, whatever the probe gave (alive, a
\* dead status, an error) and whatever was answered to the open prompt, and it
\* is deleted if and only if that prompt was answered yes.
C20_OneDeletePrompt ==
    (lConf.cull /\ InLoop) =>
        /\ \A id \in DOMAIN lRes :
              (Finished(id) /\ lHist[id].found = "new") =>
                  /\ lHist[id].dels = 1
                  /\ CallsNaming(id) # {} <=> lHist[id].answer = "yes"
        /\ (AtItem /\ lPc \in {"deleteConfirm", "panic"} /\ lHist[CurID].heads = 1) =>
              lHist[CurID].dels = 1

\* how many delete actions, over all Modify calls of the run, name the item
ActionsNaming(id) ==
    Cardinality({ <<k, j>> \in (1..Len(lModify)) \X (1..MaxItems) :
                    j <= Len(lModify[k].ids) /\ lModify[k].ids[j] = id })

\* C21: in the non-delete-all path, whatever the answers and the probe
\* outcomes, a delete is issued for an item only if an item processed before
\* it had the same canonical URL (its canonical URL was in the seen set when
\* it was reached) or its own delete prompt was asked and answered yes, and
\* at most one Modify call, with one action, is issued for an item in a run.
C21_DeleteOnlyIfSeenOrYes ==
    InLoop =>
        \A id \in DOMAIN lRes :
            /\ ActionsNaming(id) <= 1
            /\ Cardinality(CallsNaming(id)) <= 1
            /\ CallsNaming(id) # {} =>
                  \/ EarlierSame(id)
                  \/ lHist[id].dels = 1 /\ lHist[id].answer = "yes"
            /\ (lHist[id].answer = "no" /\ ~EarlierSame(id)) => CallsNaming(id) = {}

\* with probing: one item deleted at its prompt, another kept at its prompt
C21_Witness ==
    /\ lPc = "done"
    /\ Len(lItems) = 2
    /\ lHist[lItems[1]].answer = "yes"
    /\ CallsNaming(lItems[1]) # {}
    /\ lHist[lItems[2]].answer = "no"
    /\ CallsNaming(lItems[2]) = {}

----------------------------------------------------------------------------
(* SpecMain: main from getConsumerKey to the command, with                  *)
(* restoreAccessToken; obtainAccessToken is a call with its outcome.        *)

MaxKeyLen == 2

MaxCalls == 2

\* what ioutil.ReadFile returns for the consumer_key file: an error, or its bytes
KeyFiles ==
    { [kind |-> "unreadable"] }
        \cup { [kind |-> "bytes", bytes |-> b] :
                  b \in UNION { [1..n -> {"k", "\n"}] : n \in 0..MaxKeyLen } }

\* what bufio.Reader.ReadLine returns for the operator's input: an error, or
\* the line without its end
TypedLines ==
    { [kind |-> "error"] }
        \cup { [kind |-> "line", bytes |-> b] : b \in { <<>>, <<"k">>, <<"k", "k">> } }

\* the access tokens an auth.json file can hold
FileTokens == {"", "at0"}

\* auth.json: absent, not JSON, or a JSON object with its access_token
AuthFiles ==
    { [kind |-> "absent"], [kind |-> "garbage"] }
        \cup { [kind |-> "json", token |-> t] : t \in FileTokens }

\* bytes.SplitN(consumerKey, []byte("\n"), 2)[0]: the bytes before the first
\* newline, all of them when there is none
RECURSIVE FirstLine(_)
FirstLine(b) ==
    IF b = <<>> \/ Head(b) = "\n" THEN <<>> ELSE <<Head(b)>> \o FirstLine(Tail(b))

\* loadJSONFromFile(authFile, accessToken): os.Open fails on an absent file,
\* Decode fails on what is not JSON, and otherwise fills accessToken
LoadJSON(file) ==
    IF file.kind = "absent" THEN [err |-> "open", value |-> Nil]
    ELSE IF file.kind = "garbage" THEN [err |-> "decode", value |-> Nil]
    ELSE [err |-> "nil", value |-> [kind |-> "authorization", token |-> file.token]]

\* a variant of NeedsHandshake that runs the handshake whatever the file holds
NeedsHandshakeAlways(err) == TRUE

\* if err != nil { ... accessToken, err = obtainAccessToken(consumerKey) ... }
NeedsHandshake(err) == err # "nil"

\* saveJSONToFile: os.Create fails and leaves the file as it is; or the file
\* is created (truncated) and Encode fails; or the credential is written
SaveOutcomes == {"createError", "encodeError", "ok"}

SaveJSON(file, cred, outcome) ==
    IF outcome = "createError" THEN file
    ELSE IF outcome = "encodeError" THEN [kind |-> "garbage"]
    ELSE [kind |-> "json", token |-> cred.token]

\* the access tokens a handshake can end with
HandshakeTokens == {"at1", "at2"}

\* what obtainAccessToken returns
HandshakeOutcomes ==
    { [kind |-> "authorization", token |-> t] : t \in HandshakeTokens }
        \cup { [kind |-> "requestTokenError"], [kind |-> "accessTokenError"] }

\* the authenticated calls of the commands
ApiCalls == {"Retrieve", "Modify", "Add"}

InitMain ==
    /\ mPc = "getKey"
    /\ mKeyFile \in KeyFiles
    /\ mAuthFile \in AuthFiles
    /\ mKey = <<>>
    /\ mToken = Nil
    /\ mLoad = ""
    /\ mHandshakes = 0
    /\ mSaves = <<>>
    /\ mClient = Nil
    /\ mCalls = <<>>
    /\ mAbort = ""
    /\ IdleClean
    /\ IdleGateway
    /\ IdleAuth
    /\ IdleList

\* getConsumerKey, the file can be read: its first line is the key
KeyFromFile ==
    /\ mPc = "getKey"
    /\ mKeyFile.kind = "bytes"
    /\ mKey' = FirstLine(mKeyFile.bytes)
    /\ mPc' = "restore"
    /\ UNCHANGED <<mKeyFile, mAuthFile, mToken, mLoad, mHandshakes, mSaves, mClient,
                   mCalls, mAbort>>
    /\ UNCHANGED <<varsClean, varsGateway, varsAuth, varsList>>

\* getConsumerKey, the file cannot be read: the operator's line is written to
\* the file and is the key; panic when the line cannot be read or written
KeyTyped(line, written) ==
    /\ mPc = "getKey"
    /\ mKeyFile.kind = "unreadable"
    /\ IF line.kind = "error"
       THEN /\ mPc' = "panic"
            /\ mAbort' = "readLine"
            /\ UNCHANGED <<mKey, mKeyFile>>
       ELSE IF ~written
       THEN /\ mPc' = "panic"
            /\ mAbort' = "writeFile"
            /\ UNCHANGED <<mKey, mKeyFile>>
       ELSE /\ mKeyFile' = [kind |-> "bytes", bytes |-> line.bytes]
            /\ mKey' = line.bytes
            /\ mPc' = "restore"
            /\ UNCHANGED mAbort
    /\ UNCHANGED <<mAuthFile, mToken, mLoad, mHandshakes, mSaves, mClient, mCalls>>
    /\ UNCHANGED <<varsClean, varsGateway, varsAuth, varsList>>

\* restoreAccessToken up to the call of obtainAccessToken, or to its return
\* when the file loads
Load ==
    /\ mPc = "restore"
    /\ mLoad' = LoadJSON(mAuthFile).err
    /\ IF NeedsHandshake(LoadJSON(mAuthFile).err)
       THEN /\ mHandshakes' = mHandshakes + 1
            /\ mPc' = "handshake"
            /\ UNCHANGED mToken
       ELSE /\ mToken' = LoadJSON(mAuthFile).value
            /\ mPc' = "client"
            /\ UNCHANGED mHandshakes
    /\ UNCHANGED <<mKeyFile, mAuthFile, mKey, mSaves, mClient, mCalls, mAbort>>
    /\ UNCHANGED <<varsClean, varsGateway, varsAuth, varsList>>

\* obtainAccessToken returns: an error is returned to main, which panics
Handshake(out) ==
    /\ mPc = "handshake"
    /\ IF out.kind = "authorization"
       THEN /\ mToken' = out
            /\ mPc' = "save"
            /\ UNCHANGED mAbort
       ELSE /\ mToken' = Nil
            /\ mPc' = "panic"
            /\ mAbort' = "handshake"
    /\ UNCHANGED <<mKeyFile, mAuthFile, mKey, mLoad, mHandshakes, mSaves, mClient, mCalls>>
    /\ UNCHANGED <<varsClean, varsGateway, varsAuth, varsList>>

\* saveJSONToFile(authFile, accessToken): on an error restoreAccessToken
\* returns nil, err and main panics
Save(outcome) ==
    /\ mPc = "save"
    /\ mSaves' = Append(mSaves, [cred |-> mToken, outcome |-> outcome])
    /\ mAuthFile' = SaveJSON(mAuthFile, mToken, outcome)
    /\ IF outcome = "ok"
       THEN /\ mPc' = "client"
            /\ UNCHANGED <<mToken, mAbort>>
       ELSE /\ mToken' = Nil
            /\ mPc' = "panic"
            /\ mAbort' = "save"
    /\ UNCHANGED <<mKeyFile, mKey, mLoad, mHandshakes, mClient, mCalls>>
    /\ UNCHANGED <<varsClean, varsGateway, varsAuth, varsList>>

\* client := api.NewClient(consumerKey, accessToken.AccessToken)
NewClient ==
    /\ mPc = "client"
    /\ mClient' = [kind |-> "client", key |-> mKey, token |-> mToken.token]
    /\ mPc' = "command"
    /\ UNCHANGED <<mKeyFile, mAuthFile, mKey, mToken, mLoad, mHandshakes, mSaves,
                   mCalls, mAbort>>
    /\ UNCHANGED <<varsClean, varsGateway, varsAuth, varsList>>

\* the command issues an authenticated call: the request carries c.authInfo
ApiCall(op) ==
    /\ mPc = "command"
    /\ Len(mCalls) < MaxCalls
    /\ mCalls' = Append(mCalls, [op |-> op, key |-> mClient.key, token |-> mClient.token])
    /\ UNCHANGED <<mPc, mKeyFile, mAuthFile, mKey, mToken, mLoad, mHandshakes, mSaves,
                   mClient, mAbort>>
    /\ UNCHANGED <<varsClean, varsGateway, varsAuth, varsList>>

\* the command returns and main with it
CommandEnd ==
    /\ mPc = "command"
    /\ mPc' = "done"
    /\ UNCHANGED <<mKeyFile, mAuthFile, mKey, mToken, mLoad, mHandshakes, mSaves,
                   mClient, mCalls, mAbort>>
    /\ UNCHANGED <<varsClean, varsGateway, varsAuth, varsList>>

NextMain ==
    \/ KeyFromFile
    \/ \E line \in TypedLines, written \in BOOLEAN : KeyTyped(line, written)
    \/ Load
    \/ \E out \in HandshakeOutcomes : Handshake(out)
    \/ \E outcome \in SaveOutcomes : Save(outcome)
    \/ NewClient
    \/ \E op \in ApiCalls : ApiCall(op)
    \/ CommandEnd

SpecMain == InitMain /\ [][NextMain]_vars

\* saveJSONToFile was called and returned an error
SaveFailed == \E k \in 1..Len(mSaves) : mSaves[k].outcome # "ok"

\* C12: when the handshake succeeds and saving the credential to auth.json
\* fails, the credential obtained stays in memory and the process goes on to
\* run the requested command with it (it does not end at the error).
C12_SaveFailureKeepsCredential ==
    SaveFailed => (mPc # "panic" /\ mToken = mSaves[1].cred)

\* C13: every authenticated call issued carries a non-empty consumer key and
\* a non-empty access token, and they are the consumer key and the access
\* token main has loaded, whatever the two files and the typed input hold.
C13_CredentialsNonEmpty ==
    \A k \in 1..Len(mCalls) :
        /\ mCalls[k].key # <<>>
        /\ mCalls[k].token # ""
        /\ mCalls[k].key = mKey
        /\ mCalls[k].token = mToken.token

\* restoreAccessToken has returned without an error
Restored == mPc \in {"client", "command", "done"}

\* C14: the handshake is run if and only if auth.json does not load; when it
\* loads, no handshake is started and the file is not saved to and still holds
\* what was loaded; when it does not load, exactly one handshake is started,
\* saveJSONToFile is called only after it, at most once and with the credential
\* it returned, and when restoreAccessToken then returns without an error the
\* file holds exactly that credential.
C14_HandshakeIffNotLoaded ==
    /\ mHandshakes <= 1
    /\ mLoad # "" => (mHandshakes = 1 <=> mLoad # "nil")
    /\ mLoad = "nil" =>
          /\ mSaves = <<>>
          /\ mAuthFile.kind = "json"
          /\ mToken = [kind |-> "authorization", token |-> mAuthFile.token]
    /\ Len(mSaves) <= 1
    /\ mPc = "save" => (mSaves = <<>> /\ mToken.kind = "authorization")
    /\ mSaves # <<>> => (mHandshakes = 1 /\ mSaves[1].cred.kind = "authorization")
    /\ (Restored /\ mHandshakes = 1) =>
          /\ Len(mSaves) = 1
          /\ mSaves[1].cred = mToken
          /\ mAuthFile = [kind |-> "json", token |-> mToken.token]

\* auth.json did not parse: one handshake, its credential saved, the command run
C14_Witness ==
    /\ mPc = "done"
    /\ mLoad = "decode"
    /\ mHandshakes = 1
    /\ mToken = [kind |-> "authorization", token |-> "at2"]
    /\ mAuthFile = [kind |-> "json", token |-> "at2"]
    /\ mCalls # <<>>

====
